---- MODULE Spec2Model ----
(***************************************************************************)
(* A model of sos_r/kernel.py: the Python -> R source-text encoder         *)
(* _R_repr with its helpers homogeneous_type and make_name, the module     *)
(* level warning dictionary _R_repr_warnings, and sos_R.get_vars, which    *)
(* drives the encoder once per exported variable.                          *)
(*                                                                         *)
(* SpecName applies make_name to one string, SpecRepr makes one top-level  *)
(* call of _R_repr in a fresh process, Spec runs get_vars repeatedly,      *)
(* SpecStr takes an R character scalar to Python through                   *)
(* ..py.repr.character.1, SpecArray takes a numpy array to R and back      *)
(* through ..py.repr.array.numer.                                          *)
(*                                                                         *)
(* Python str values are sequences of one-character strings; R source text *)
(* is a TLA+ string built with \o, as the code builds it with + and join.  *)
(***************************************************************************)
EXTENDS Integers, Sequences, FiniteSets, TLC

VARIABLES
    heap,             \* the container objects of the Python process, by id()
    sos_dict,         \* env.sos_dict: variable name -> value
    R_repr_warnings,  \* the module global _R_repr_warnings (keys, in insertion order)
    tmpfiles,         \* number of temporary files created so far
    pc,               \* position of the running operation
    arg,              \* argument of the running top-level call
    ret,              \* what the last _R_repr call returned or raised
    todo,             \* get_vars: the names not yet processed
    newname,          \* get_vars: local variable newname
    warned,           \* messages given to sos_kernel.warn, in order
    cells,            \* statements given to sos_kernel.run_cell, in order
    calls,            \* number of get_vars calls started
    responses         \* put_vars: what R answered to each statement, in order

vars == <<heap, sos_dict, R_repr_warnings, tmpfiles, pc, arg, ret, todo,
          newname, warned, cells, calls, responses>>

(***************************************************************************)
(* Bounds of the model.                                                    *)
(***************************************************************************)
MaxNameLen == 3      \* longest enumerated input string of make_name
MaxSeqLen == 3       \* longest enumerated flat list
MaxDepth == 6        \* call depth at which Python raises RecursionError; deeper
                     \* than any enumerated value that does not contain itself
MaxItems == 2       \* most elements of a container in the object graphs
MaxRows == 2        \* most rows of a data frame
MaxNames == 2       \* most names of one get_vars call
MaxCalls == 2       \* get_vars calls in one behaviour
MaxStrLen == 3      \* longest enumerated R character scalar
MaxAxis == 3        \* longest axis of an enumerated array of rank 2 or 3
MaxPutItems == 2    \* most names given to one put_vars call

(***************************************************************************)
(* Characters and strings.                                                 *)
(***************************************************************************)
Letters == {"a", "b", "c", "d", "e", "f", "g", "h", "i", "j", "k", "l", "m",
            "n", "o", "p", "q", "r", "s", "t", "u", "v", "w", "x", "y", "z",
            "A", "B", "C", "D", "E", "F", "G", "H", "I", "J", "K", "L", "M",
            "N", "O", "P", "Q", "R", "S", "T", "U", "V", "W", "X", "Y", "Z"}
Digits == {"0", "1", "2", "3", "4", "5", "6", "7", "8", "9"}

\* the characters re's \w matches
IsWordChar(c) == c \in Letters \cup Digits \cup {"_"}

RECURSIVE Cat(_)
\* ''.join(chars): the text of a character sequence
Cat(s) == IF s = <<>> THEN "" ELSE Head(s) \o Cat(Tail(s))

RECURSIVE Join(_, _)
\* sep.join(parts)
Join(parts, sep) ==
    IF parts = <<>> THEN ""
    ELSE IF Len(parts) = 1 THEN parts[1]
    ELSE parts[1] \o sep \o Join(Tail(parts), sep)

DigitChar(d) == CASE d = 0 -> "0" [] d = 1 -> "1" [] d = 2 -> "2" [] d = 3 -> "3"
                  [] d = 4 -> "4" [] d = 5 -> "5" [] d = 6 -> "6" [] d = 7 -> "7"
                  [] d = 8 -> "8" [] d = 9 -> "9"

RECURSIVE NatChars(_)
NatChars(n) == IF n < 10 THEN <<DigitChar(n)>>
               ELSE NatChars(n \div 10) \o <<DigitChar(n % 10)>>

\* str(n) / repr(n) of a Python int, as characters
IntChars(n) == IF n < 0 THEN <<"-">> \o NatChars(0 - n) ELSE NatChars(n)

RECURSIVE TupleBody(_)
TupleBody(t) == IF t = <<>> THEN <<>>
                ELSE IF Len(t) = 1 THEN IntChars(t[1])
                ELSE IntChars(t[1]) \o <<",", " ">> \o TupleBody(Tail(t))

\* str(t) of a Python tuple of ints: "(1, 2)", "(1,)", "()"
TupleChars(t) == <<"(">> \o TupleBody(t)
                 \o (IF Len(t) = 1 THEN <<",">> ELSE <<>>) \o <<")">>

\* str.isalpha(): non-empty and every character a letter
isalpha(name) == name # <<>> /\ \A i \in 1..Len(name) : name[i] \in Letters

\* re.sub(r'\W', '_', name)
SubNonWord(name) ==
    [i \in 1..Len(name) |-> IF IsWordChar(name[i]) THEN name[i] ELSE "_"]

\* make_name with the escape letter left out
make_name_noescape(name) ==
    IF isalpha(name) THEN name ELSE SubNonWord(name)

\* make_name that prepends the escape letter to every non-alphabetic name
make_name_alwaysX(name) ==
    IF isalpha(name) THEN name ELSE SubNonWord(<<"X">> \o name)

\* make_name
make_name(name) ==
    IF isalpha(name) THEN name
    ELSE LET escaped == IF name = <<>> \/ name[1] \notin Letters
                        THEN <<"X">> \o name ELSE name
         IN SubNonWord(escaped)

(***************************************************************************)
(* Python values.  A value x is a pair <<kind, payload>>, x[1] its kind    *)
(* and x[2] its payload; a container lives in heap and is referred to by   *)
(* <<"ref", id>>.  A heap object is                                        *)
(* [cls, keys, items, cols, idx, shape]: keys are a dict's keys or a       *)
(* frame's row labels, items a container's elements (a dict's values, a    *)
(* frame's column names, an array's elements in C order), cols a frame's   *)
(* or matrix's columns, each the sequence of its values, idx the class of  *)
(* a frame's index, shape an array's shape.                                *)
(***************************************************************************)
BoolV(b) == <<"bool", b>>
IntV(n) == <<"int", n>>
StrV(chars) == <<"str", chars>>
NoneV == <<"none", 0>>
\* a float: class "fin", "nan" or "inf", sign sg, magnitude m in tenths
FloatV(c, sg, m) == <<"float", [c |-> c, sg |-> sg, m |-> m]>>
\* a tuple of ints (used as a dict key)
TupleV(t) == <<"inttuple", t>>
\* a value of a type _R_repr has no branch for, named by its payload
ObjV(name) == <<"obj", name>>
Ref(id) == <<"ref", id>>
\* numpy scalars: numpy.float16/32/64 (payload as a float's) and numpy.int64
NpFloatV(bits, c, sg, m) ==
    <<(IF bits = 16 THEN "float16" ELSE IF bits = 32 THEN "float32" ELSE "float64"),
      [c |-> c, sg |-> sg, m |-> m]>>
NpIntV(n) == <<"int64", n>>
\* the numpy scalar types of lines 90-92 that the model has values of
NumpyScalarTypes == {"float16", "float32", "float64", "int64"}

ListObj(items) ==
    [cls |-> "list", keys |-> <<>>, items |-> items, cols |-> <<>>, idx |-> "none",
     shape |-> <<>>]
TupleObj(items) ==
    [cls |-> "tuple", keys |-> <<>>, items |-> items, cols |-> <<>>, idx |-> "none",
     shape |-> <<>>]
SetObj(items) ==
    [cls |-> "set", keys |-> <<>>, items |-> items, cols |-> <<>>, idx |-> "none",
     shape |-> <<>>]
DictObj(keys, vals) ==
    [cls |-> "dict", keys |-> keys, items |-> vals, cols |-> <<>>, idx |-> "none",
     shape |-> <<>>]
\* a pandas.DataFrame: idx is the class of its index, keys list(data.index)
FrameObj(idx, labels, names, cols) ==
    [cls |-> "DataFrame", keys |-> labels, items |-> names, cols |-> cols, idx |-> idx,
     shape |-> <<>>]
MatrixObj(cols) ==
    [cls |-> "matrix", keys |-> <<>>, items |-> <<>>, cols |-> cols, idx |-> "none",
     shape |-> <<>>]
\* a numpy.ndarray: its shape and its elements (numpy scalars) in C order
NdarrayObj(shape, data) ==
    [cls |-> "ndarray", keys |-> <<>>, items |-> data, cols |-> <<>>, idx |-> "none",
     shape |-> shape]

Range(s) == {s[i] : i \in 1..Len(s)}

\* type(x)
TypeOf(h, x) == IF x[1] = "ref" THEN h[x[2]].cls ELSE x[1]

\* isinstance(x, t) for the classes the code tests; bool is a subclass of
\* int, numpy.float64 a subclass of float
IsInstance(h, x, t) ==
    \/ TypeOf(h, x) = t
    \/ t = "int" /\ TypeOf(h, x) = "bool"
    \/ t = "float" /\ TypeOf(h, x) = "float64"
    \/ t = "Sequence" /\ TypeOf(h, x) \in {"list", "tuple", "str", "inttuple"}
    \/ t = "Index" /\ TypeOf(h, x) \in {"Index", "RangeIndex"}

\* homogeneous_type that wants a second element to agree with the first
homogeneous_type_multi(h, seq) ==
    /\ Len(seq) > 1
    /\ \A i \in 2..Len(seq) : TypeOf(h, seq[i]) = TypeOf(h, seq[1])

\* homogeneous_type(seq) for a non-empty seq (next(iseq) raises StopIteration
\* on an empty one, see next_raises)
homogeneous_type(h, seq) ==
    LET first_type == TypeOf(h, seq[1])
    IN  IF first_type \in {"int", "float"}
        THEN \A i \in 2..Len(seq) :
                IsInstance(h, seq[i], "int") \/ IsInstance(h, seq[i], "float")
        ELSE \A i \in 2..Len(seq) : IsInstance(h, seq[i], first_type)

\* next(iseq) at the top of homogeneous_type raises StopIteration
next_raises(seq) == seq = <<>>

(***************************************************************************)
(* repr() and str() of Python scalars.                                     *)
(***************************************************************************)
\* repr(x) of a float, as characters
FloatChars(f) ==
    IF f.c = "nan" THEN <<"n", "a", "n">>
    ELSE IF f.c = "inf"
    THEN (IF f.sg < 0 THEN <<"-">> ELSE <<>>) \o <<"i", "n", "f">>
    ELSE (IF f.sg < 0 THEN <<"-">> ELSE <<>>)
         \o NatChars(f.m \div 10) \o <<".">> \o NatChars(f.m % 10)

\* repr(s) of a str, as characters: single quotes unless s holds a single
\* quote and no double quote; backslash and the chosen quote are escaped
StrReprChars(s) ==
    LET q == IF "'" \in Range(s) /\ "\"" \notin Range(s) THEN "\"" ELSE "'"
        esc(c) == IF c = "\\" THEN <<"\\", "\\">>
                  ELSE IF c = q THEN <<"\\", c>> ELSE <<c>>
        body[i \in 0..Len(s)] == IF i = 0 THEN <<>> ELSE body[i - 1] \o esc(s[i])
    IN  <<q>> \o body[Len(s)] \o <<q>>

\* str(x) of a scalar
PyStr(x) ==
    CASE x[1] = "str" -> x[2]
      [] x[1] = "int" -> IntChars(x[2])
      [] x[1] = "bool" -> IF x[2] THEN <<"T", "r", "u", "e">> ELSE <<"F", "a", "l", "s", "e">>
      [] x[1] = "float" -> FloatChars(x[2])
      [] x[1] = "none" -> <<"N", "o", "n", "e">>
      [] x[1] = "inttuple" -> TupleChars(x[2])
      [] OTHER -> <<"<">> \o <<x[2]>> \o <<">">>

\* sos.utils.short_repr(obj) of an object without an encoding rule
short_repr(x) == "<" \o x[2] \o ">"

\* the name of the n-th file tempfile.NamedTemporaryFile(suffix='.feather') makes
TmpName(n) == <<"/", "t", "m", "p", "/", "t", "m", "p">> \o NatChars(n)
              \o <<".", "f", "e", "a", "t", "h", "e", "r">>

(***************************************************************************)
(* _R_repr.  The encoder is a recursive function with side effects; the    *)
(* operators below thread them: st = [warn, nfiles, writes, imports, msg]  *)
(* is the warning dictionary, the number of temporary files made, the      *)
(* writes attempted on them, the outcome of every `import feather` and the *)
(* message of the exception raised, and proc is the set the parameter      *)
(* processed refers to after the call.  env says what the environment      *)
(* does: whether feather can be imported and which write attempts (by      *)
(* number) fail.  A result is [exc, out, proc, st], exc # "none" meaning   *)
(* the call raised.                                                        *)
(***************************************************************************)
NoProcessed == [set |-> FALSE, ids |-> {}]      \* processed=None

Ok(out, proc, st) == [exc |-> "none", out |-> out, proc |-> proc, st |-> st]
Raise(e, proc, st) == [exc |-> e, out |-> "", proc |-> proc, st |-> st]

\* a warning dictionary that keeps every assignment as a new entry
RecordWarningDup(w, msg) == Append(w, msg)

\* _R_repr_warnings[msg] = 1
RecordWarning(w, msg) == IF msg \in Range(w) THEN w ELSE Append(w, msg)

\* a cycle guard that never fires
ReenteredNever(processed, id) == FALSE

\* `if processed: if id(obj) in processed`
Reentered(processed, id) ==
    processed.set /\ processed.ids # {} /\ id \in processed.ids

\* lines 144-145: a column that is not of homogeneous type becomes str(x) of its values
Coerce(h, col) ==
    IF homogeneous_type(h, col) THEN col
    ELSE [i \in 1..Len(col) |-> StrV(PyStr(col[i]))]

\* feather.write_dataframe(data, path): attempt number Len(st.writes) + 1
Write(st, env, path, data) ==
    [st EXCEPT !.writes = Append(@, [path |-> path, data |-> data,
                                     ok |-> (Len(@) + 1) \notin env.wfail])]

LastWriteOk(st) == st.writes[Len(st.writes)].ok

\* the key of the warning of lines 158-160
UnsupportedMsg(obj) ==
    "Unsupported datatype " \o short_repr(obj) \o ". Variable is set to NULL"

\* an else branch that rejects the value
R_repr_unsupported_raises(obj, processed, st) == Raise("TypeError", processed, st)

\* lines 157-161: a value no branch takes
R_repr_unsupported(obj, processed, st) ==
    Ok("NULL", processed, [st EXCEPT !.warn = RecordWarning(@, UnsupportedMsg(obj))])

\* as.character(obj) of a finite R double given in tenths
RDoubleChars(f) ==
    (IF f.sg < 0 THEN <<"-">> ELSE <<>>)
    \o NatChars(f.m \div 10)
    \o (IF f.m % 10 = 0 THEN <<>> ELSE <<".">> \o NatChars(f.m % 10))

\* ..py.repr.double.1 of R_init_statements, lines 189-197
py_repr_double_1(f) ==
    IF f.c = "nan" THEN "numpy.nan"
    ELSE IF f.c = "inf" THEN "float(\"inf\")"
    ELSE Cat(RDoubleChars(f))

(***************************************************************************)
(* Arrays.  A numpy array is [shape, data], data its elements in C order   *)
(* (last axis fastest) and indices starting at 0; an R array is            *)
(* [dim, data], data in column-major order (first axis fastest) and        *)
(* indices starting at 1.                                                  *)
(***************************************************************************)
RECURSIVE Prod(_)
Prod(s) == IF s = <<>> THEN 1 ELSE Head(s) * Prod(Tail(s))

Reverse(s) == [i \in 1..Len(s) |-> s[Len(s) + 1 - i]]

RECURSIVE Ravel(_, _)
\* the C-order offset of index idx in an array of the given shape
Ravel(idx, shape) ==
    IF idx = <<>> THEN 0
    ELSE Head(idx) * Prod(Tail(shape)) + Ravel(Tail(idx), Tail(shape))

RECURSIVE Unravel(_, _)
\* the index that has C-order offset o in an array of the given shape
Unravel(o, shape) ==
    IF shape = <<>> THEN <<>>
    ELSE <<o \div Prod(Tail(shape))>> \o Unravel(o % Prod(Tail(shape)), Tail(shape))

\* s with the entries at positions a and b exchanged
Exchange(s, a, b) ==
    [i \in 1..Len(s) |-> IF i = a THEN s[b] ELSE IF i = b THEN s[a] ELSE s[i]]

\* an array handed on with its axes as they are
swapaxes_none(a, axis1, axis2) == a

\* numpy.ndarray.swapaxes(axis1, axis2), axes counted from 0
swapaxes(a, axis1, axis2) ==
    LET sh == Exchange(a.shape, axis1 + 1, axis2 + 1)
    IN  [shape |-> sh,
         data |-> [o \in 1..Len(a.data) |->
                     a.data[1 + Ravel(Exchange(Unravel(o - 1, sh), axis1 + 1, axis2 + 1),
                                      a.shape)]]]

\* numpy.ndarray.flatten(order='C')
flatten(a) == a.data

\* numpy.array(list).reshape(shape)
reshape(list, shape) == [shape |-> shape, data |-> list]

\* a[idx] of a numpy array, idx counted from 0
np_at(a, idx) == a.data[1 + Ravel(idx, a.shape)]

\* R's array(data, dim): the values fill the array in column-major order
R_array(data, dim) == [dim |-> dim, data |-> data]

RECURSIVE ColumnMajor(_, _)
\* the column-major offset of the 1-based index idx in an R array of dimension dim
ColumnMajor(idx, dim) ==
    IF idx = <<>> THEN 0
    ELSE (Head(idx) - 1) + Head(dim) * ColumnMajor(Tail(idx), Tail(dim))

\* a[idx] of an R array, idx counted from 1
R_at(a, idx) == a.data[1 + ColumnMajor(idx, a.dim)]

\* the numpy array a heap object stands for
AsArray(o) == [shape |-> o.shape, data |-> o.items]

\* repr(x) of a numpy scalar (numpy 1.x: the bare number)
np_repr(x) == IF x[1] = "int64" THEN IntChars(x[2]) ELSE FloatChars(x[2])

\* lines 112-114: what the snippet of an array of rank >= 2 is made of
ndarray_swapped(o) == swapaxes(AsArray(o), Len(o.shape) - 2, Len(o.shape) - 1)

\* ..py.repr.array.numer of R_init_statements, lines 235-239, of an R array of numbers
py_repr_array_numer(obj) ==
    "numpy.array([" \o Join([i \in 1..Len(obj.data) |-> Cat(IntChars(obj.data[i]))], ",")
      \o "]).reshape(["
      \o Join([i \in 1..Len(obj.dim) |-> Cat(IntChars(Reverse(obj.dim)[i]))], ",")
      \o "]).swapaxes(" \o Cat(IntChars(Len(obj.dim) - 2)) \o ","
      \o Cat(IntChars(Len(obj.dim) - 1)) \o ")"

\* line 132: len(df_index) != len(set(df_index)) never holds
unique_labels_always(labels) == TRUE
\* line 132: len(df_index) != len(set(df_index)) always holds
unique_labels_never(labels) == FALSE

\* line 132: len(df_index) == len(set(df_index))
unique_labels(labels) == Cardinality(Range(labels)) = Len(labels)

\* a temporary file that takes the name of the first one made
NamedTemporaryFile_reuse(st) == 1

\* tempfile.NamedTemporaryFile(suffix='.feather', delete=False).name: the
\* number of the file created, one the process has not made before
NamedTemporaryFile(st) == st.nfiles + 1

\* an import of feather that is taken to have worked
ImportFailedNever(env) == FALSE

\* `import feather` raises ImportError
ImportFailed(env) == ~env.feather

\* lines 95-96 and 116-117: the import is attempted
TryImport(st, env) == [st EXCEPT !.imports = Append(@, env.feather)]

\* lines 98-101 and 119-122: the message of the UsageError
FeatherRequired(what) ==
    "The feather-format module is required to pass " \o what
      \o "See https://github.com/wesm/feather/tree/master/python for details."

RECURSIVE R_repr(_, _, _, _, _, _)
RECURSIVE EncodeEach(_, _, _, _, _, _, _)
RECURSIVE R_repr_Sequence(_, _, _, _, _, _)

\* the generator `_R_repr(x) for x in obj` of lines 72, 74, 88 (share = FALSE:
\* every element is encoded with processed=None) and `_R_repr(y, processed)`
\* of line 85 (share = TRUE), consumed left to right by join
EncodeEach(h, items, processed, share, st, env, depth) ==
    IF items = <<>>
    THEN [exc |-> "none", outs |-> <<>>, proc |-> processed, st |-> st]
    ELSE LET r == R_repr(h, Head(items),
                         IF share THEN processed ELSE NoProcessed, st, env, depth)
         IN  IF r.exc # "none"
             THEN [exc |-> r.exc, outs |-> <<>>, proc |-> processed, st |-> r.st]
             ELSE LET rest == EncodeEach(h, Tail(items),
                                         IF share THEN r.proc ELSE processed,
                                         share, r.st, env, depth)
                  IN  [rest EXCEPT !.outs = <<r.out>> \o @]

\* lines 65-74: the Sequence branch, on the elements of the sequence
R_repr_Sequence(h, items, processed, st, env, depth) ==
    IF Len(items) = 0 THEN Ok("c()", processed, st)
    ELSE LET homo == homogeneous_type(h, items)
             e == EncodeEach(h, items, processed, FALSE, st, env, depth + 1)
         IN  IF e.exc # "none" THEN Raise(e.exc, processed, e.st)
             ELSE Ok((IF homo THEN "c(" ELSE "list(") \o Join(e.outs, ",") \o ")",
                     processed, e.st)

\* lines 77-86: the dict branch
R_repr_dict(h, id, processed, st, env, depth) ==
    IF Reentered(processed, id) THEN Ok("NULL", processed, st)
    ELSE LET truthy == processed.set /\ processed.ids # {}
             p0 == IF truthy THEN processed ELSE [set |-> TRUE, ids |-> {}]
             p1 == [p0 EXCEPT !.ids = @ \cup {id}]
             e == EncodeEach(h, h[id].items, p1, TRUE, st, env, depth + 1)
             entry(i) == Cat(make_name(PyStr(h[id].keys[i]))) \o "=" \o e.outs[i]
             \* the caller's set is the one mutated unless a new one was made
             after == IF truthy THEN e.proc ELSE processed
         IN  IF e.exc # "none"
             THEN Raise(e.exc, IF truthy THEN e.proc ELSE processed, e.st)
             ELSE Ok("list(" \o Join([i \in 1..Len(h[id].items) |-> entry(i)], ",")
                       \o ")", after, e.st)

\* lines 94-105: the numpy matrix branch
R_repr_matrix(h, id, processed, st, env, depth) ==
    IF ImportFailed(env)
    THEN Raise("UsageError", processed,
               [TryImport(st, env) EXCEPT
                  !.msg = FeatherRequired("numpy matrix as R matrix")])
    ELSE LET path == NamedTemporaryFile(st)
             s1 == [TryImport(st, env) EXCEPT !.nfiles = @ + 1]
             s2 == Write(s1, env, path, h[id].cols)
         IN  IF ~LastWriteOk(s2) THEN Raise("WriteError", processed, s2)
             ELSE Ok("data.matrix(..read.feather("
                       \o Cat(StrReprChars(TmpName(path))) \o "))", processed, s2)

\* lines 115-150: the pandas.DataFrame branch
R_repr_DataFrame(h, id, processed, st, env, depth) ==
    IF ImportFailed(env)
    THEN Raise("UsageError", processed,
               [TryImport(st, env) EXCEPT
                  !.msg = FeatherRequired("pandas DataFrame as R data.frame")])
    ELSE
    LET path == NamedTemporaryFile(st)
        s1 == [TryImport(st, env) EXCEPT !.nfiles = @ + 1]
        data == h[id].cols
        \* lines 130-135; the test of line 130 holds of every index (a
        \* RangeIndex is an Index too), so line 136 is never reached
        labels == h[id].keys
        unique == unique_labels(labels)
        df_index == IF unique THEN [none |-> FALSE, labels |-> labels]
                    ELSE [none |-> TRUE, labels |-> <<>>]
        s2 == IF unique THEN s1
              ELSE [s1 EXCEPT !.warn = RecordWarning(@,
                      "Index is ignored because R dataframe does not accept non-unique row names.")]
        s3 == Write(s2, env, path, data)
        \* the except clause, lines 140-146
        stop == \E c \in 1..Len(data) : next_raises(data[c])
        coerced == [c \in 1..Len(data) |-> Coerce(h, data[c])]
        s4 == Write(s3, env, path, coerced)
        sw == IF LastWriteOk(s3) THEN s3 ELSE s4
        ix == IF df_index.none THEN Ok("NULL", processed, sw)
              ELSE R_repr_Sequence(h, df_index.labels, NoProcessed, sw, env, depth + 1)
    IN  IF ~LastWriteOk(s3) /\ stop THEN Raise("StopIteration", processed, s3)
        ELSE IF ~LastWriteOk(s3) /\ ~LastWriteOk(s4) THEN Raise("WriteError", processed, s4)
        ELSE IF ix.exc # "none" THEN Raise(ix.exc, processed, ix.st)
        ELSE Ok("..read.feather(" \o Cat(StrReprChars(TmpName(path)))
                  \o ", index=" \o ix.out \o ")", processed, ix.st)

\* lines 106-114: the numpy.ndarray branch
R_repr_ndarray(h, id, processed, st, env, depth) ==
    IF Len(h[id].shape) = 1
    THEN LET e == EncodeEach(h, h[id].items, processed, FALSE, st, env, depth + 1)
         IN  IF e.exc # "none" THEN Raise(e.exc, processed, e.st)
             ELSE Ok("array(c(" \o Join(e.outs, ",") \o "))", processed, e.st)
    ELSE IF Len(h[id].shape) = 0 THEN Raise("AxisError", processed, st)
    ELSE LET sw == ndarray_swapped(h[id])
             flat == flatten(sw)
         IN  Ok("array(c(" \o Join([i \in 1..Len(flat) |-> Cat(np_repr(flat[i]))], ",")
                  \o "), dim=(rev(c" \o Cat(TupleChars(sw.shape)) \o ")))",
                processed, st)

\* _R_repr(obj, processed), lines 49-161
R_repr(h, obj, processed, st, env, depth) ==
    IF depth > MaxDepth THEN Raise("RecursionError", processed, st)
    ELSE IF obj[1] = "bool" THEN Ok(IF obj[2] THEN "TRUE" ELSE "FALSE", processed, st)
    ELSE IF obj[1] = "int" THEN Ok(Cat(IntChars(obj[2])), processed, st)
    ELSE IF obj[1] = "str" THEN Ok(Cat(StrReprChars(obj[2])), processed, st)
    ELSE IF obj[1] \in {"float", "float64"}
    THEN Ok(IF obj[2].c = "nan" THEN "NaN"
            ELSE IF obj[2].c = "inf" THEN "Inf"
            ELSE Cat(FloatChars(obj[2])), processed, st)
    ELSE IF obj[1] = "inttuple"
    THEN R_repr_Sequence(h, [i \in 1..Len(obj[2]) |-> IntV(obj[2][i])],
                         processed, st, env, depth)
    ELSE IF obj[1] = "ref" /\ h[obj[2]].cls \in {"list", "tuple"}
    THEN R_repr_Sequence(h, h[obj[2]].items, processed, st, env, depth)
    ELSE IF obj[1] = "none" THEN Ok("NULL", processed, st)
    ELSE IF obj[1] = "ref" /\ h[obj[2]].cls = "dict"
    THEN R_repr_dict(h, obj[2], processed, st, env, depth)
    ELSE IF obj[1] = "ref" /\ h[obj[2]].cls = "set"
    THEN LET e == EncodeEach(h, h[obj[2]].items, processed, FALSE, st, env, depth + 1)
         IN  IF e.exc # "none" THEN Raise(e.exc, processed, e.st)
             ELSE Ok("list(" \o Join(e.outs, ",") \o ")", processed, e.st)
    ELSE IF obj[1] \in NumpyScalarTypes THEN Ok(Cat(np_repr(obj)), processed, st)
    ELSE IF obj[1] = "ref" /\ h[obj[2]].cls = "matrix"
    THEN R_repr_matrix(h, obj[2], processed, st, env, depth)
    ELSE IF obj[1] = "ref" /\ h[obj[2]].cls = "ndarray"
    THEN R_repr_ndarray(h, obj[2], processed, st, env, depth)
    ELSE IF obj[1] = "ref" /\ h[obj[2]].cls = "DataFrame"
    THEN R_repr_DataFrame(h, obj[2], processed, st, env, depth)
    ELSE R_repr_unsupported(obj, processed, st)

(***************************************************************************)
(* The values the model encodes.                                           *)
(***************************************************************************)
Scalars == {BoolV(TRUE), BoolV(FALSE), IntV(1), IntV(12),
            FloatV("fin", 1, 14), FloatV("nan", 1, 0),
            FloatV("inf", 1, 0), FloatV("inf", -1, 0),
            StrV(<<"a">>), NoneV, ObjV("o1")}

SeqsUpTo(S, n) == UNION {[1..m -> S] : m \in 0..n}
DistinctSeqsUpTo(S, n) == {s \in SeqsUpTo(S, n) : Cardinality(Range(s)) = Len(s)}

\* the key of the i-th entry of an enumerated dict: 'self', 'k2', 'k3', ...
KeyAt(i) == IF i = 1 THEN StrV(<<"s", "e", "l", "f">>) ELSE StrV(<<"k">> \o NatChars(i))

\* one list or tuple of scalars
FlatHeaps ==
    {[i \in {1} |-> ListObj(s)] : s \in SeqsUpTo(Scalars, MaxSeqLen)}
    \cup {[i \in {1} |-> TupleObj(s)] : s \in SeqsUpTo(Scalars, 2)}

\* two containers that may refer to themselves and to each other
GraphValues == {IntV(1), ObjV("o1"), Ref(1), Ref(2)}
GraphObjs ==
    {ListObj(s) : s \in SeqsUpTo(GraphValues, MaxItems)}
    \cup {DictObj([i \in 1..Len(s) |-> KeyAt(i)], s) : s \in SeqsUpTo(GraphValues, MaxItems)}
    \cup {SetObj(s) : s \in DistinctSeqsUpTo({IntV(1), ObjV("o1"), ObjV("o2")}, MaxItems)}
GraphHeaps == [{1, 2} -> GraphObjs]

\* one data frame, or one matrix
Cells == {IntV(1), StrV(<<"a">>)}
RowLabels == {StrV(<<"x">>), StrV(<<"y">>)}
ColumnNames == <<StrV(<<"A">>), StrV(<<"B">>)>>
FramesWithRows(r) ==
    {FrameObj("RangeIndex", [i \in 1..r |-> IntV(i - 1)],
              SubSeq(ColumnNames, 1, Len(cols)), cols) :
        cols \in SeqsUpTo([1..r -> Cells], 2)}
    \cup {FrameObj("Index", labels, SubSeq(ColumnNames, 1, Len(cols)), cols) :
            labels \in [1..r -> RowLabels], cols \in SeqsUpTo([1..r -> Cells], 2)}
FrameObjs == UNION {FramesWithRows(r) : r \in 0..MaxRows}
TableHeaps ==
    {[i \in {1} |-> f] : f \in FrameObjs}
    \cup {[i \in {1} |-> MatrixObj(<<c1, c2>>)] : c1, c2 \in [1..2 -> {IntV(1), IntV(12)}]}

\* frames whose explicit row labels are integers, or integers and strings
MixedLabelFrames ==
    {FrameObj("Index", labels, <<ColumnNames[1]>>, <<<<IntV(1), IntV(1)>>>>) :
        labels \in {<<StrV(<<"x">>), IntV(7)>>, <<IntV(7), StrV(<<"x">>)>>,
                    <<IntV(7), IntV(8)>>, <<IntV(7), IntV(7)>>}}
LabelHeaps == {[i \in {1} |-> f] : f \in MixedLabelFrames}

\* one mapping whose keys are strings and integers, some of which get the
\* same name from make_name
DictKeys == {StrV(<<"a", " ", "b">>), StrV(<<"a", "_", "b">>), IntV(1), StrV(<<"1">>)}
KeyHeaps ==
    {[i \in {1} |-> DictObj(ks, [j \in 1..Len(ks) |-> IntV(j)])] :
        ks \in DistinctSeqsUpTo(DictKeys, 2)}

\* numpy scalars, and numpy arrays of rank 1 and 2
NumpyScalars ==
    {NpFloatV(16, "nan", 1, 0), NpFloatV(32, "nan", 1, 0), NpFloatV(64, "nan", 1, 0),
     NpFloatV(32, "fin", 1, 15), NpFloatV(64, "fin", 1, 14), NpFloatV(64, "inf", -1, 0),
     NpIntV(3)}
ArrayCells(bits) == {NpFloatV(bits, "nan", 1, 0), NpFloatV(bits, "fin", 1, 15)}
ArrayObjs ==
    UNION {{NdarrayObj(<<Len(d)>>, d) : d \in SeqsUpTo(ArrayCells(bits), 2)} :
             bits \in {32, 64}}
    \cup UNION {{NdarrayObj(<<r, c>>, d) : d \in [1..(r * c) -> ArrayCells(64)]} :
                  r \in 1..2, c \in 1..2}
ArrayHeaps == {[i \in {1} |-> a] : a \in ArrayObjs}

\* what the environment may do during one encode
Envs == [feather : BOOLEAN, wfail : SUBSET (1..2)]
GoodEnv == [feather |-> TRUE, wfail |-> {}]

NoRet == [exc |-> "none", out |-> "", proc |-> NoProcessed,
          st |-> [warn |-> <<>>, nfiles |-> 0, writes |-> <<>>, imports |-> <<>>,
                  msg |-> ""]]

\* _R_repr(obj) called from the top with the process state as it is
TopCall(h, obj, warnings, nfiles, env) ==
    R_repr(h, obj, NoProcessed,
           [warn |-> warnings, nfiles |-> nfiles, writes |-> <<>>, imports |-> <<>>,
            msg |-> ""], env, 1)

(***************************************************************************)
(* SpecName: make_name applied to one string.                              *)
(***************************************************************************)
NameChars == {"a", "X", "1", "_", "(", " "}
NameInputs ==
    SeqsUpTo(NameChars, MaxNameLen)
    \cup {<<"1", "1", "1", "1", "1">>, <<"_", "1", "1", "1", "1">>,
          IntChars(11112), TupleChars(<<1, 2>>)}

InitName ==
    /\ heap = <<>> /\ sos_dict = <<>> /\ R_repr_warnings = <<>> /\ tmpfiles = 0
    /\ todo = <<>> /\ newname = <<>> /\ warned = <<>> /\ cells = <<>> /\ calls = 0
    /\ responses = <<>>
    /\ pc = "name"
    /\ arg \in NameInputs
    /\ ret = <<>>

CallMakeName ==
    /\ pc = "name"
    /\ ret' = make_name(arg)
    /\ pc' = "named"
    /\ UNCHANGED <<heap, sos_dict, R_repr_warnings, tmpfiles, arg, todo, newname,
                   warned, cells, calls, responses>>

\* make_name applied to its own result
CallMakeNameAgain ==
    /\ pc = "named"
    /\ arg' = ret
    /\ ret' = make_name(ret)
    /\ pc' = "renamed"
    /\ UNCHANGED <<heap, sos_dict, R_repr_warnings, tmpfiles, todo, newname,
                   warned, cells, calls, responses>>

NextName == CallMakeName \/ CallMakeNameAgain

SpecName == InitName /\ [][NextName]_vars

(***************************************************************************)
(* SpecRepr: one top-level call _R_repr(obj) in a fresh process.           *)
(***************************************************************************)
InitRepr ==
    /\ sos_dict = <<>> /\ R_repr_warnings = <<>> /\ tmpfiles = 0
    /\ todo = <<>> /\ newname = <<>> /\ warned = <<>> /\ cells = <<>> /\ calls = 0
    /\ responses = <<>>
    /\ pc = "ready"
    /\ ret = NoRet
    /\ \/ heap \in FlatHeaps /\ arg = Ref(1)
       \/ heap \in GraphHeaps /\ arg = Ref(1)
       \/ heap \in TableHeaps /\ arg = Ref(1)
       \/ heap \in LabelHeaps /\ arg = Ref(1)
       \/ heap \in KeyHeaps /\ arg = Ref(1)
       \/ heap \in ArrayHeaps /\ arg = Ref(1)
       \/ heap = <<>> /\ arg \in Scalars
       \/ heap = <<>> /\ arg \in NumpyScalars

Call_R_repr ==
    /\ pc = "ready"
    /\ \E env \in Envs :
          /\ ret' = TopCall(heap, arg, R_repr_warnings, tmpfiles, env)
          /\ R_repr_warnings' = ret'.st.warn
          /\ tmpfiles' = ret'.st.nfiles
          /\ pc' = IF ret'.exc = "none" THEN "returned" ELSE "raised"
    /\ UNCHANGED <<heap, sos_dict, arg, todo, newname, warned, cells, calls, responses>>

NextRepr == Call_R_repr

SpecRepr == InitRepr /\ [][NextRepr]_vars

(***************************************************************************)
(* Spec: sos_R.get_vars, called any number of times.  One call runs the    *)
(* loop of lines 382-400 over its names; an exception of _R_repr leaves    *)
(* the call at once.  warned and cells hold what the running call has      *)
(* given to sos_kernel.warn and sos_kernel.run_cell.                       *)
(***************************************************************************)
kernel_name == "ir"

VarX == <<"x">>
VarY == <<"_", "y">>
VarNames == {VarX, VarY}

GetObjs1 ==
    {f \in FrameObjs : Len(f.cols) = 1}
    \cup {ListObj(<<ObjV("o1")>>), ListObj(<<Ref(1)>>), ListObj(<<ObjV("o1"), Ref(1)>>),
          DictObj(<<KeyAt(1)>>, <<Ref(1)>>)}
GetObjs2 == {ListObj(<<ObjV("o2"), IntV(1)>>), ListObj(<<IntV(1)>>)}
\* a matrix or a frame, and a list that holds it twice
GetTables ==
    {MatrixObj(<<<<IntV(1), IntV(12)>>>>),
     FrameObj("RangeIndex", <<IntV(0)>>, <<ColumnNames[1]>>, <<<<IntV(1)>>>>)}
GetHeaps ==
    {[i \in {1, 2} |-> IF i = 1 THEN o1 ELSE o2] : o1 \in GetObjs1, o2 \in GetObjs2}
    \cup {[i \in {1, 2} |-> IF i = 1 THEN t ELSE ListObj(<<Ref(1), Ref(1)>>)] :
            t \in GetTables}

Init ==
    /\ heap \in GetHeaps
    /\ sos_dict = [n \in VarNames |-> IF n = VarX THEN Ref(1) ELSE Ref(2)]
    /\ R_repr_warnings = <<>>          \* line 46
    /\ tmpfiles = 0
    /\ pc = "idle"
    /\ arg = NoneV
    /\ ret = NoRet
    /\ todo = <<>> /\ newname = <<>> /\ warned = <<>> /\ cells = <<>> /\ calls = 0
    /\ responses = <<>>

\* get_vars(names) is called
GetVarsCall ==
    /\ pc \in {"idle", "returned", "raised"}
    /\ calls < MaxCalls
    /\ \E names \in SeqsUpTo(VarNames, MaxNames) : todo' = names
    /\ calls' = calls + 1
    /\ warned' = <<>> /\ cells' = <<>>
    /\ pc' = "loop"
    /\ UNCHANGED <<heap, sos_dict, R_repr_warnings, tmpfiles, arg, ret, newname, responses>>

\* a loop that does not reset the warnings before encoding
ResetBeforeNever(w) == w

\* line 390
ResetBefore(w) == <<>>

\* a variable that keeps its name in R
NewNameSame(name) == name

\* lines 383-389: newname
NewName(name) == IF name[1] = "_" THEN <<".">> \o Tail(name) ELSE name

\* lines 383-390: the next name is renamed and the warnings are reset
GetVarsName ==
    /\ pc = "loop" /\ todo # <<>>
    /\ LET name == Head(todo)
       IN  /\ IF name[1] = "_"
              THEN warned' = Append(warned,
                          "Variable " \o Cat(name) \o " is passed from SoS to kernel "
                            \o kernel_name \o " as " \o Cat(<<".">> \o Tail(name)))
              ELSE warned' = warned
           /\ newname' = NewName(name)
           /\ arg' = sos_dict[name]
    /\ R_repr_warnings' = ResetBefore(R_repr_warnings)
    /\ pc' = "encode"
    /\ UNCHANGED <<heap, sos_dict, tmpfiles, ret, todo, cells, calls, responses>>

\* line 391: r_repr = _R_repr(env.sos_dict[name])
GetVarsEncode ==
    /\ pc = "encode"
    /\ \E env \in Envs :
          /\ ret' = TopCall(heap, arg, R_repr_warnings, tmpfiles, env)
          /\ R_repr_warnings' = ret'.st.warn
          /\ tmpfiles' = ret'.st.nfiles
          /\ pc' = IF ret'.exc = "none" THEN "encoded" ELSE "raised"
    /\ UNCHANGED <<heap, sos_dict, arg, todo, newname, warned, cells, calls, responses>>

\* lines 392-394: the warnings of the encode are surfaced and cleared
GetVarsSurface ==
    /\ pc = "encoded"
    /\ IF R_repr_warnings # <<>>
       THEN /\ warned' = Append(warned, Join(R_repr_warnings, "\n"))
            /\ R_repr_warnings' = <<>>
       ELSE UNCHANGED <<warned, R_repr_warnings>>
    /\ pc' = "surfaced"
    /\ UNCHANGED <<heap, sos_dict, tmpfiles, arg, ret, todo, newname, cells, calls, responses>>

\* lines 395-400: the assignment is run in R
GetVarsRunCell ==
    /\ pc = "surfaced"
    /\ cells' = Append(cells, Cat(newname) \o " <- " \o ret.out)
    /\ todo' = Tail(todo)
    /\ pc' = "loop"
    /\ UNCHANGED <<heap, sos_dict, R_repr_warnings, tmpfiles, arg, ret, newname,
                   warned, calls, responses>>

\* the loop is over: get_vars returns
GetVarsReturn ==
    /\ pc = "loop" /\ todo = <<>>
    /\ pc' = "returned"
    /\ UNCHANGED <<heap, sos_dict, R_repr_warnings, tmpfiles, arg, ret, todo,
                   newname, warned, cells, calls, responses>>

Next ==
    \/ GetVarsCall
    \/ GetVarsName
    \/ GetVarsEncode
    \/ GetVarsSurface
    \/ GetVarsRunCell
    \/ GetVarsReturn

Spec == Init /\ [][Next]_vars

(***************************************************************************)
(* SpecStr: an R character scalar goes to Python.  ..py.repr.character.1   *)
(* makes Python source text of it (put_vars, line 427), which Python then  *)
(* evaluates (line 446 and the SoS side).  Texts are character sequences.  *)
(***************************************************************************)
StrChars == {"a", "\"", "\\", "'"}

\* ..py.repr.character.1 of R_init_statements, lines 203-205
py_repr_character_1(obj) ==
    <<"r", "\"", "\"", "\"">> \o obj \o <<"\"", "\"", "\"">>

\* the character a backslash escape of a non-raw literal stands for
Unescape(c) == IF c \in {"\"", "\\", "'"} THEN <<c>>
               ELSE IF c = "a" THEN <<"BEL">> ELSE <<"\\", c>>

RECURSIVE ScanBody(_, _, _, _, _)
\* Python's tokenizer inside a string literal of text t, at position i: q is
\* the closing delimiter, acc the value read so far.  A backslash takes the
\* next character with it; the literal ends at the first q.
ScanBody(t, i, q, raw, acc) ==
    IF i > Len(t) THEN [exc |-> "SyntaxError", value |-> <<>>, next |-> i]
    ELSE IF t[i] = "\\"
    THEN IF i = Len(t) THEN [exc |-> "SyntaxError", value |-> <<>>, next |-> i]
         ELSE ScanBody(t, i + 2, q, raw,
                       acc \o (IF raw THEN <<t[i], t[i + 1]>> ELSE Unescape(t[i + 1])))
    ELSE IF i + Len(q) - 1 <= Len(t) /\ SubSeq(t, i, i + Len(q) - 1) = q
    THEN [exc |-> "none", value |-> acc, next |-> i + Len(q)]
    ELSE ScanBody(t, i + 1, q, raw, acc \o <<t[i]>>)

RECURSIVE Literals(_, _)
\* Python's evaluation of text t from position i on as adjacent string
\* literals, which are concatenated; anything else is a SyntaxError
Literals(t, i) ==
    IF i > Len(t) THEN [exc |-> "none", value |-> <<>>]
    ELSE LET raw == t[i] = "r" /\ i < Len(t) /\ t[i + 1] \in {"\"", "'"}
             j == IF raw THEN i + 1 ELSE i
         IN  IF t[j] \notin {"\"", "'"} THEN [exc |-> "SyntaxError", value |-> <<>>]
             ELSE LET triple == j + 2 <= Len(t) /\ t[j + 1] = t[j] /\ t[j + 2] = t[j]
                      q == IF triple THEN <<t[j], t[j], t[j]>> ELSE <<t[j]>>
                      b == ScanBody(t, j + Len(q), q, raw, <<>>)
                      rest == Literals(t, b.next)
                  IN  IF b.exc # "none" \/ rest.exc # "none"
                      THEN [exc |-> "SyntaxError", value |-> <<>>]
                      ELSE [exc |-> "none", value |-> b.value \o rest.value]

\* Python evaluates a text that is to be a string literal
py_eval_str(t) == IF t = <<>> THEN [exc |-> "SyntaxError", value |-> <<>>]
                  ELSE Literals(t, 1)

InitStr ==
    /\ heap = <<>> /\ sos_dict = <<>> /\ R_repr_warnings = <<>> /\ tmpfiles = 0
    /\ todo = <<>> /\ newname = <<>> /\ warned = <<>> /\ cells = <<>> /\ calls = 0
    /\ responses = <<>>
    /\ pc = "r_string"
    /\ arg \in SeqsUpTo(StrChars, MaxStrLen)
    /\ ret = <<>>

\* R: ..py.repr(obj) of a character scalar
PutString ==
    /\ pc = "r_string"
    /\ ret' = py_repr_character_1(arg)
    /\ pc' = "py_text"
    /\ UNCHANGED <<heap, sos_dict, R_repr_warnings, tmpfiles, arg, todo, newname,
                   warned, cells, calls, responses>>

\* Python evaluates the text
EvalString ==
    /\ pc = "py_text"
    /\ ret' = py_eval_str(ret)
    /\ pc' = "evaluated"
    /\ UNCHANGED <<heap, sos_dict, R_repr_warnings, tmpfiles, arg, todo, newname,
                   warned, cells, calls, responses>>

NextStr == PutString \/ EvalString

SpecStr == InitStr /\ [][NextStr]_vars

(***************************************************************************)
(* SpecArray: a numpy array of integers of rank 2 or 3 goes to R (_R_repr, *)
(* the statement evaluated by R) and, when R holds it as an array of rank  *)
(* 3, comes back (..py.repr.array.numer, the text evaluated by Python).    *)
(* ret is [exc, out, value]: the text and what evaluating it makes.        *)
(***************************************************************************)
ArrayBases == {0, 100}
ArrayShapes ==
    [1..2 -> 1..MaxAxis] \cup [1..3 -> 1..MaxAxis]
IntArrays ==
    {NdarrayObj(sh, [i \in 1..Prod(sh) |-> NpIntV(b + i)]) :
        sh \in ArrayShapes, b \in ArrayBases}

\* R evaluates array(c(...), dim=(rev(c(...)))) of lines 110-114
R_eval_array(o) ==
    LET sw == ndarray_swapped(o)
        flat == flatten(sw)
    IN  R_array([i \in 1..Len(flat) |-> flat[i][2]], Reverse(sw.shape))

\* Python evaluates numpy.array([...]).reshape([...]).swapaxes(n-2, n-1) of
\* lines 236-238
py_eval_array(obj) ==
    swapaxes(reshape([i \in 1..Len(obj.data) |-> NpIntV(obj.data[i])], Reverse(obj.dim)),
             Len(obj.dim) - 2, Len(obj.dim) - 1)

InitArray ==
    /\ sos_dict = <<>> /\ R_repr_warnings = <<>> /\ tmpfiles = 0
    /\ todo = <<>> /\ newname = <<>> /\ warned = <<>> /\ cells = <<>> /\ calls = 0
    /\ responses = <<>>
    /\ pc = "py_array"
    /\ heap \in {[i \in {1} |-> a] : a \in IntArrays}
    /\ arg = Ref(1)
    /\ ret = [exc |-> "none", out |-> "", value |-> <<>>]

\* the array is encoded and R evaluates the statement
EncodeArray ==
    /\ pc = "py_array"
    /\ LET r == TopCall(heap, arg, R_repr_warnings, tmpfiles, GoodEnv)
       IN  ret' = [exc |-> r.exc, out |-> r.out, value |-> R_eval_array(heap[arg[2]])]
    /\ pc' = "r_array"
    /\ UNCHANGED <<heap, sos_dict, R_repr_warnings, tmpfiles, arg, todo, newname,
                   warned, cells, calls, responses>>

\* ..py.repr(obj) of an R array that is not a matrix (line 256 takes those)
\* and Python evaluates the text
DecodeArray ==
    /\ pc = "r_array"
    /\ Len(ret.value.dim) >= 3
    /\ ret' = [exc |-> "none", out |-> py_repr_array_numer(ret.value),
               value |-> py_eval_array(ret.value)]
    /\ pc' = "py_back"
    /\ UNCHANGED <<heap, sos_dict, R_repr_warnings, tmpfiles, arg, todo, newname,
                   warned, cells, calls, responses>>

NextArray == EncodeArray \/ DecodeArray

SpecArray == InitArray /\ [][NextArray]_vars

(***************************************************************************)
(* SpecPut: sos_R.put_vars(items, to_kernel).  cells holds the statements  *)
(* given to sos_kernel.get_response and responses what R answered: the     *)
(* evaluated list of R's variables, then the text of ..py.repr.  Names and *)
(* texts are character sequences.  ret is [kind, text, exc, err]: what    *)
(* put_vars returned, and the exception its except clause caught with the  *)
(* text of that exception.                                                 *)
(***************************************************************************)
WordFrame == <<"r", "e", "a", "d", "_", "d", "a", "t", "a", "f", "r", "a", "m", "e">>
WordNumpy == <<"n", "u", "m", "p", "y">>
WordPandas == <<"p", "a", "n", "d", "a", "s">>
PrefixSos == <<"s", "o", "s">>

\* word in text
Contains(text, word) ==
    \E i \in 1..(Len(text) - Len(word) + 1) : SubSeq(text, i, i + Len(word) - 1) = word

\* a test that finds every word in every text
MentionsAlways(expr, word) == TRUE

\* lines 430-432, 438: `word in expr`
Mentions(expr, word) == Contains(expr, word)

\* a test that takes no name to start with 'sos'
startswith_sos_never(x) == FALSE

\* line 409: x.startswith('sos')
startswith_sos(x) == Len(x) >= Len(PrefixSos) /\ SubSeq(x, 1, Len(PrefixSos)) = PrefixSos

\* item.replace(".", "_")
ReplaceDots(item) == [i \in 1..Len(item) |-> IF item[i] = "." THEN "_" ELSE item[i]]

\* lines 411-415: the warnings for the items with a dot in their name
RECURSIVE DotWarnings(_)
DotWarnings(items) ==
    IF items = <<>> THEN <<>>
    ELSE (IF "." \in Range(Head(items))
          THEN <<"Variable " \o Cat(Head(items)) \o " is put to SoS as "
                   \o Cat(ReplaceDots(Head(items)))>>
          ELSE <<>>) \o DotWarnings(Tail(items))

\* lines 404-407: the answer to cat(..py.repr(ls())) as Python evaluates it,
\* a str for one variable (lines 310-312) and a list otherwise, and all_vars
ls_response(rvars) == IF Len(rvars) = 1 THEN StrV(rvars[1]) ELSE <<"list", rvars>>
all_vars(response) == IF response[1] = "str" THEN <<response[2]>> ELSE response[2]

\* line 420: the statement that asks for the items
py_repr_statement(items) ==
    "cat(..py.repr(list("
      \o Join([i \in 1..Len(items) |-> Cat(items[i]) \o "=" \o Cat(items[i])], ",")
      \o ")))"

\* lines 428-433: the source handed to a Python kernel
python_source(expr) ==
    (IF Mentions(expr, WordFrame) THEN "from feather import read_dataframe\n" ELSE "")
      \o "\n" \o (IF Mentions(expr, WordNumpy) THEN "import numpy" ELSE "")
      \o "\n" \o (IF Mentions(expr, WordPandas) THEN "import pandas" ELSE "")
      \o "\nglobals().update(" \o Cat(expr) \o ")"

\* the names, R's variable lists and R's texts of the model
PutNames == {<<"a">>, <<"a", ".", "b">>, <<"s", "o", "s", "x">>,
             <<"s", "o", "s", ".", "y">>}
RVarLists == {<<>>, <<<<"a">>>>, <<<<"s", "o", "s", "x">>>>,
              <<<<"a">>, <<"s", "o", "s", "x">>>>,
              <<<<"s", "o">>, <<"s", "o", "s", ".", "y">>, <<"s", "o", "s", "x">>>>}
Destinations == {"Python2", "Python3", "SoS", "none"}
\* dict([ ('a',1) ])
ExprPlain ==
    <<"d", "i", "c", "t", "(", "[", " ", "(", "'", "a", "'", ",", "1", ")",
      " ", "]", ")">>
\* dict([ ('a',numpy.nan) ])
ExprNumpy ==
    <<"d", "i", "c", "t", "(", "[", " ", "(", "'", "a", "'", ",", "n", "u",
      "m", "p", "y", ".", "n", "a", "n", ")", " ", "]", ")">>
\* dict([ ('a',pandas.Series([1],[r"""k"""])) ])
ExprSeries ==
    <<"d", "i", "c", "t", "(", "[", " ", "(", "'", "a", "'", ",", "p", "a",
      "n", "d", "a", "s", ".", "S", "e", "r", "i", "e", "s", "(", "[", "1",
      "]", ",", "[", "r", "\"", "\"", "\"", "k", "\"", "\"", "\"", "]", ")",
      ")", " ", "]", ")">>
\* dict([ ('a',read_dataframe(r'/tmp/arrow1')) ])
ExprFrame ==
    <<"d", "i", "c", "t", "(", "[", " ", "(", "'", "a", "'", ",", "r", "e",
      "a", "d", "_", "d", "a", "t", "a", "f", "r", "a", "m", "e", "(", "r",
      "'", "/", "t", "m", "p", "/", "a", "r", "r", "o", "w", "1", "'", ")",
      ")", " ", "]", ")">>
\* dict([ ('a',read_dataframe(r'/tmp/arrow1').set_index(pandas.Index(r"""k"""))) ])
ExprIndexed ==
    <<"d", "i", "c", "t", "(", "[", " ", "(", "'", "a", "'", ",", "r", "e",
      "a", "d", "_", "d", "a", "t", "a", "f", "r", "a", "m", "e", "(", "r",
      "'", "/", "t", "m", "p", "/", "a", "r", "r", "o", "w", "1", "'", ")",
      ".", "s", "e", "t", "_", "i", "n", "d", "e", "x", "(", "p", "a", "n",
      "d", "a", "s", ".", "I", "n", "d", "e", "x", "(", "r", "\"", "\"",
      "\"", "k", "\"", "\"", "\"", ")", ")", ")", " ", "]", ")">>
\* dict([ ('a',r"""b"""") ])
ExprBroken ==
    <<"d", "i", "c", "t", "(", "[", " ", "(", "'", "a", "'", ",", "r", "\"",
      "\"", "\"", "b", "\"", "\"", "\"", "\"", ")", " ", "]", ")">>
Exprs == {ExprPlain, ExprNumpy, ExprSeries, ExprFrame, ExprIndexed, ExprBroken}

\* lines 436-443: what evaluating expr does where feather can or cannot be
\* imported: [exc, err], err the text of the exception
EvalOutcomes(expr, feather) ==
    IF Mentions(expr, WordFrame) /\ ~feather
    THEN {[exc |-> "ImportError", err |-> "No module named 'feather'"]}
    ELSE IF expr = ExprBroken
    THEN {[exc |-> "SyntaxError",
           err |-> "EOL while scanning string literal (<string>, line 1)"],
          [exc |-> "SyntaxError",
           err |-> "unterminated string literal (detected at line 1) (<string>, line 1)"]}
    ELSE {[exc |-> "none", err |-> ""]}

InitPut ==
    /\ heap = <<>> /\ sos_dict = <<>> /\ R_repr_warnings = <<>> /\ tmpfiles = 0
    /\ todo = <<>> /\ newname = <<>> /\ warned = <<>> /\ cells = <<>> /\ calls = 0
    /\ responses = <<>>
    /\ pc = "put_idle"
    /\ arg = NoneV
    /\ ret = [kind |-> "none", text |-> "", exc |-> "none", err |-> ""]

\* put_vars(items, to_kernel) is called
PutVarsCall ==
    /\ pc = "put_idle"
    /\ \E items \in SeqsUpTo(PutNames, MaxPutItems), to_kernel \in Destinations :
          /\ arg' = [items |-> items, to_kernel |-> to_kernel]
          /\ todo' = items
    /\ pc' = "put_ls"
    /\ UNCHANGED <<heap, sos_dict, R_repr_warnings, tmpfiles, ret, newname, warned,
                   cells, calls, responses>>

\* lines 404-418: R is asked for its variables, those that start with 'sos'
\* join the items, the items with a dot are announced, and an empty list of
\* items ends the call
PutVarsList ==
    /\ pc = "put_ls"
    /\ \E rvars \in RVarLists :
          LET response == ls_response(rvars)
              items == todo \o SelectSeq(all_vars(response), startswith_sos)
          IN  /\ cells' = Append(cells, "cat(..py.repr(ls()))")
              /\ responses' = Append(responses, response)
              /\ todo' = items
              /\ warned' = warned \o DotWarnings(items)
              /\ IF items = <<>>
                 THEN /\ ret' = [kind |-> "dict", text |-> "{}", exc |-> "none", err |-> ""]
                      /\ pc' = "returned"
                 ELSE /\ ret' = ret
                      /\ pc' = "put_repr"
    /\ UNCHANGED <<heap, sos_dict, R_repr_warnings, tmpfiles, arg, newname, calls>>

\* lines 420-423: R is asked for the text of the items
PutVarsRepr ==
    /\ pc = "put_repr"
    /\ cells' = Append(cells, py_repr_statement(todo))
    /\ \E expr \in Exprs : responses' = Append(responses, expr)
    /\ pc' = "put_expr"
    /\ UNCHANGED <<heap, sos_dict, R_repr_warnings, tmpfiles, arg, ret, todo, newname,
                   warned, calls>>

\* lines 425-446: the text goes to a Python kernel as source, or is
\* evaluated here, a failure being warned about
PutVarsFinish ==
    /\ pc = "put_expr"
    /\ LET expr == responses[Len(responses)]
       IN  IF arg.to_kernel \in {"Python2", "Python3"}
           THEN /\ ret' = [kind |-> "source", text |-> python_source(expr), exc |-> "none",
                        err |-> ""]
                /\ warned' = warned
           ELSE \E feather \in BOOLEAN : \E o \in EvalOutcomes(expr, feather) :
                  IF o.exc = "none"
                  THEN /\ ret' = [kind |-> "value", text |-> Cat(expr), exc |-> "none",
                               err |-> ""]
                       /\ warned' = warned
                  ELSE /\ ret' = [kind |-> "None", text |-> "None", exc |-> o.exc,
                               err |-> o.err]
                       /\ warned' = Append(warned, "Failed to evaluate "
                              \o Cat(StrReprChars(expr)) \o ": " \o o.err)
    /\ pc' = "returned"
    /\ UNCHANGED <<heap, sos_dict, R_repr_warnings, tmpfiles, arg, todo, newname,
                   cells, calls, responses>>

NextPut == PutVarsCall \/ PutVarsList \/ PutVarsRepr \/ PutVarsFinish

SpecPut == InitPut /\ [][NextPut]_vars

(***************************************************************************)
(* Properties.                                                             *)
(***************************************************************************)
Called == pc \in {"returned", "raised"}           \* SpecRepr: the call is over
ScalarText(x) == TopCall(<<>>, x, <<>>, 0, GoodEnv).out
IsRefTo(h, x, classes) == x[1] = "ref" /\ h[x[2]].cls \in classes
RefsOf(h, id) == {h[id].items[i][2] : i \in {j \in 1..Len(h[id].items) : h[id].items[j][1] = "ref"}}

RECURSIVE ReachFrom(_, _)
\* the containers reachable from those of S
ReachFrom(h, S) ==
    LET N == S \cup UNION {RefsOf(h, id) : id \in S}
    IN  IF N = S THEN S ELSE ReachFrom(h, N)

\* the container id contains itself
ContainsItself(h, id) == id \in ReachFrom(h, RefsOf(h, id))
\* every container reachable from id is a dict
OnlyDicts(h, id) == \A j \in ReachFrom(h, {id}) : h[j].cls = "dict"
Count(seq, x) == Cardinality({i \in 1..Len(seq) : seq[i] = x})

RECURSIVE PathText(_, _, _)
\* the text of a value in which exactly the references to a mapping that is
\* being encoded further up (one of path) are NULL
PathText(h, x, path) ==
    IF x[1] # "ref" THEN ScalarText(x)
    ELSE IF x[2] \in path THEN "NULL"
    ELSE "list(" \o Join([i \in 1..Len(h[x[2]].items) |->
                    Cat(make_name(PyStr(h[x[2]].keys[i]))) \o "="
                      \o PathText(h, h[x[2]].items[i], path \cup {x[2]})], ",") \o ")"

\* C1: encoding a mapping that contains itself, directly or through a chain
\* of nested mappings, returns, and the reference back to a mapping that is
\* being encoded is NULL; d with d['self'] = d gives list(self=NULL).
C1_SelfReferenceIsNull ==
    (Called /\ IsRefTo(heap, arg, {"dict"}) /\ OnlyDicts(heap, arg[2])
        /\ ContainsItself(heap, arg[2])
        /\ \A j \in DOMAIN heap : j # arg[2] => Count(heap[arg[2]].items, Ref(j)) <= 1)
    => /\ ret.exc = "none"
       /\ ret.out = PathText(heap, arg, {})
       /\ heap[arg[2]].items = <<Ref(arg[2])>> => ret.out = "list(self=NULL)"

C1_Witness ==
    /\ pc = "returned"
    /\ heap[1] = DictObj(<<KeyAt(1)>>, <<Ref(2)>>)
    /\ heap[2] = DictObj(<<KeyAt(1)>>, <<Ref(1)>>)
    /\ arg = Ref(1)
    /\ ret.out = "list(self=list(self=NULL))"

\* C2: re-entering any container already entered (list, tuple, set or
\* mapping) is encoded as NULL, so _R_repr returns on every value that
\* contains itself; a list that contains itself gives c(NULL).
C2_EveryCycleIsCut ==
    (Called /\ IsRefTo(heap, arg, {"list", "tuple", "set", "dict"})
        /\ ContainsItself(heap, arg[2]))
    => /\ ret.exc = "none"
       /\ heap[arg[2]] = ListObj(<<Ref(arg[2])>>) => ret.out = "c(NULL)"

\* C3: make_name returns a purely alphabetic string unchanged; otherwise it
\* prepends 'X' when the string is empty or does not start with a letter and
\* replaces every character that is not a letter, digit or underscore by '_'.
C3_MakeName ==
    pc = "named" =>
      /\ isalpha(arg) => ret = arg
      /\ ~isalpha(arg) =>
           LET p == IF arg = <<>> \/ arg[1] \notin Letters THEN 1 ELSE 0
           IN  /\ Len(ret) = Len(arg) + p
               /\ p = 1 => ret[1] = "X"
               /\ \A i \in 1..Len(arg) :
                     ret[i + p] = IF arg[i] \in Letters \cup Digits \cup {"_"}
                                  THEN arg[i] ELSE "_"
      /\ arg = <<"1", "1", "1", "1", "1">> => Cat(ret) = "X11111"
      /\ arg = <<"_", "1", "1", "1", "1">> => Cat(ret) = "X_1111"
      /\ arg = IntChars(11112) => Cat(ret) = "X11112"
      /\ arg = TupleChars(<<1, 2>>) => Cat(ret) = "X_1__2_"

C3_Witness ==
    pc = "named" /\ arg = <<"(", "1", ",", " ", "2", ")">> /\ Cat(ret) = "X_1__2_"

ScalarKinds == {"bool", "int", "float", "str"}
Items == heap[arg[2]].items
\* the argument is a list or tuple of booleans, integers, floats and strings
IsScalarSequence ==
    /\ IsRefTo(heap, arg, {"list", "tuple"})
    /\ \A i \in 1..Len(Items) : Items[i][1] \in ScalarKinds

\* C4 as stated: for every scalar x, _R_repr([x]) is the same text as
\* _R_repr(x), not a one-element collection literal.
C4_Original ==
    (Called /\ IsScalarSequence /\ Len(Items) = 1)
    => ret.exc = "none" /\ ret.out = ScalarText(Items[1])

\* C4, amended: for every scalar x, _R_repr([x]) is the one-element literal
\* c(<_R_repr(x)>), the scalar's text wrapped in c( ).
C4_SingletonIsOneElementVector ==
    (Called /\ IsScalarSequence /\ Len(Items) = 1)
    => ret.exc = "none" /\ ret.out = "c(" \o ScalarText(Items[1]) \o ")"

C4_Witness ==
    /\ pc = "returned" /\ arg = Ref(1)
    /\ heap[1] = ListObj(<<FloatV("fin", 1, 14)>>)
    /\ ret.out = "c(1.4)"

\* the kinds of C5: int and float are one numeric kind
KindOf(x) == IF x[1] \in {"int", "float"} THEN "numeric" ELSE x[1]

\* C5: a sequence of more than one scalar is encoded as list(e1,...,en) when
\* its elements are not all of one kind (numeric, boolean, string), and as
\* c(e1,...,en) only when they are; every element keeps its own literal, in order.
C5_MixedIsList ==
    (Called /\ IsScalarSequence /\ Len(Items) > 1)
    => /\ ret.exc = "none"
       /\ ret.out =
            (IF \A i \in 1..Len(Items) : KindOf(Items[i]) = KindOf(Items[1])
             THEN "c(" ELSE "list(")
            \o Join([i \in 1..Len(Items) |-> ScalarText(Items[i])], ",") \o ")"

\* C6: in both directions negative infinity is encoded as the negated
\* Infinity sentinel, so -Infinity and +Infinity get different texts.
C6_NegativeInfinity ==
    (Called /\ arg[1] = "float" /\ arg[2].c = "inf")
    => LET other == FloatV("inf", 0 - arg[2].sg, 0)
       IN  /\ ret.out = (IF arg[2].sg < 0 THEN "-Inf" ELSE "Inf")
           /\ ret.out # ScalarText(other)
           /\ py_repr_double_1(arg[2]) # py_repr_double_1(other[2])

\* the text an element is expected to get: NULL for an unsupported value
ElemText(x) == IF x[1] = "obj" THEN "NULL" ELSE ScalarText(x)
WarningFor(x) == "Unsupported datatype <" \o x[2] \o ">. Variable is set to NULL"
\* the argument is a container whose elements are scalars or unsupported values
IsFlatContainer ==
    /\ IsRefTo(heap, arg, {"list", "tuple", "set", "dict"})
    /\ \A i \in 1..Len(Items) : Items[i][1] # "ref"
BodyText ==
    Join([i \in 1..Len(Items) |->
            (IF heap[arg[2]].cls = "dict"
             THEN Cat(make_name(PyStr(heap[arg[2]].keys[i]))) \o "=" ELSE "")
            \o ElemText(Items[i])], ",")

\* no container reachable from id contains itself
Acyclic(h, id) == \A j \in ReachFrom(h, {id}) : ~ContainsItself(h, j)
\* the unsupported values among the elements of the containers reachable from id
ObjsUnder(h, id) ==
    UNION {{h[j].items[i] : i \in {n \in 1..Len(h[j].items) : h[j].items[n][1] = "obj"}} :
             j \in ReachFrom(h, {id})}

\* C7: a value without an encoding rule never makes _R_repr raise: it is
\* encoded as NULL and a warning naming it is recorded; inside a list, set
\* or mapping the container's encode completes, with every other element
\* encoded as usual.
C7_UnsupportedIsNull ==
    /\ (Called /\ arg[1] = "obj")
       => ret.exc = "none" /\ ret.out = "NULL" /\ ret.st.warn = <<WarningFor(arg)>>
    /\ (Called /\ IsRefTo(heap, arg, {"list", "tuple", "set", "dict"})
          /\ Acyclic(heap, arg[2]))
       => /\ ret.exc = "none"
          /\ \A x \in ObjsUnder(heap, arg[2]) : WarningFor(x) \in Range(ret.st.warn)
          /\ Len(ret.st.warn) = Cardinality(ObjsUnder(heap, arg[2]))
    /\ (Called /\ IsFlatContainer /\ \E i \in 1..Len(Items) : Items[i][1] = "obj")
       => /\ ret.exc = "none"
          /\ ret.out \in {"c(" \o BodyText \o ")", "list(" \o BodyText \o ")"}
          /\ heap[arg[2]].cls \in {"set", "dict"} => ret.out = "list(" \o BodyText \o ")"
          /\ \A i \in 1..Len(Items) :
                Items[i][1] = "obj" => WarningFor(Items[i]) \in Range(ret.st.warn)
          /\ Len(ret.st.warn) = Cardinality({Items[i] : i \in {j \in 1..Len(Items) : Items[j][1] = "obj"}})

C7_Witness ==
    /\ pc = "returned" /\ arg = Ref(1)
    /\ heap[1] = ListObj(<<IntV(1), ObjV("o1"), StrV(<<"a">>)>>)
    /\ ret.out = "list(1,NULL,'a')"
    /\ ret.st.warn = <<"Unsupported datatype <o1>. Variable is set to NULL">>

\* C8: encoding the same unsupported value two or more times within one
\* top-level call leaves exactly one warning entry for it.
C8_OneWarningPerValue ==
    /\ Called => \A i, j \in 1..Len(ret.st.warn) :
                    ret.st.warn[i] = ret.st.warn[j] => i = j
    /\ (Called /\ IsFlatContainer)
       => \A i \in 1..Len(Items) :
             Items[i][1] = "obj" => Count(ret.st.warn, WarningFor(Items[i])) = 1

C8_Witness ==
    /\ pc = "returned" /\ arg = Ref(1)
    /\ heap[1] = ListObj(<<ObjV("o1"), ObjV("o1")>>)
    /\ ret.out = "c(NULL,NULL)"
    /\ ret.st.warn = <<"Unsupported datatype <o1>. Variable is set to NULL">>

\* what get_vars has surfaced for the variable it has just encoded is what
\* an encode of that variable alone records
SurfacedIsOwn ==
    pc = "surfaced" =>
      \E env \in Envs :
         LET own == TopCall(heap, arg, <<>>, 0, env)
         IN  /\ own.exc = "none"
             /\ ret.st.warn = own.st.warn
             /\ own.st.warn # <<>> =>
                   /\ warned # <<>>
                   /\ warned[Len(warned)] = Join(own.st.warn, "\n")

\* C9 as stated: over any sequence of get_vars calls the warning collection
\* is empty when each variable's encode begins and empty when get_vars
\* returns, and the warnings surfaced for a variable are those of its own encode.
C9_Original ==
    /\ pc = "encode" => R_repr_warnings = <<>>
    /\ pc = "returned" => R_repr_warnings = <<>>
    /\ SurfacedIsOwn

\* C9, amended: the warning collection is empty when each variable's encode
\* begins and empty when get_vars returns from a call that was given at
\* least one name, and the warnings surfaced for a variable are those of its
\* own encode, also after an earlier encode raised with warnings pending.
C9_WarningsAreOwn ==
    /\ pc = "encode" => R_repr_warnings = <<>>
    /\ (pc = "returned" /\ cells # <<>>) => R_repr_warnings = <<>>
    /\ SurfacedIsOwn

\* the encode of a call begins after the encode of an earlier call raised
\* with a warning pending
C9_Witness ==
    /\ pc = "encode" /\ calls = 2
    /\ ret.exc # "none" /\ ret.st.warn # <<>>
    /\ R_repr_warnings = <<>>

\* C10: encoding a frame makes at most two write attempts; when the first
\* fails, every column that is not of homogeneous type is coerced to the text
\* of its values and the write is retried exactly once; when the retry fails
\* too, _R_repr raises and returns no snippet.
C10_RetryOnce ==
    (Called /\ IsRefTo(heap, arg, {"DataFrame"}) /\ ret.exc # "UsageError")
    => LET w == ret.st.writes
           data == heap[arg[2]].cols
           text(col) == [i \in 1..Len(col) |-> StrV(PyStr(col[i]))]
           coerced == [c \in 1..Len(data) |->
                         IF data[c] = <<>> \/ homogeneous_type(heap, data[c])
                         THEN data[c] ELSE text(data[c])]
       IN  /\ Len(w) \in {1, 2}
           /\ w[1].ok => Len(w) = 1
           /\ ~w[1].ok => Len(w) = 2 /\ w[2].data = coerced
           /\ (Len(w) = 2 /\ ~w[2].ok) => ret.exc # "none" /\ ret.out = ""

IsFrame == IsRefTo(heap, arg, {"DataFrame"})
Frame == heap[arg[2]]
\* the literal of the path of the n-th temporary file
PathLit(n) == Cat(StrReprChars(TmpName(n)))
NonUniqueMsg ==
    "Index is ignored because R dataframe does not accept non-unique row names."
DistinctLabels(labels) == \A i, j \in 1..Len(labels) : labels[i] = labels[j] => i = j

\* C11: for a frame with a default (range) row index the snippet carries no
\* inline row-label vector: the index argument is absent or NULL (c() is NULL).
C11_DefaultIndexOmitted ==
    (Called /\ IsFrame /\ Frame.idx = "RangeIndex" /\ ret.exc = "none")
    => ret.out \in {"..read.feather(" \o PathLit(tmpfiles) \o ")",
                    "..read.feather(" \o PathLit(tmpfiles) \o ", index=NULL)",
                    "..read.feather(" \o PathLit(tmpfiles) \o ", index=c())"}

\* C12: for a frame whose row labels are not pairwise distinct the encode
\* records exactly one warning, that non-unique row names are not accepted,
\* and does not fail for it: it raises only when feather is missing or both
\* writes fail, and otherwise writes the file and returns the snippet that
\* reads it back with index=NULL.
C12_DuplicateLabelsDropIndex ==
    (Called /\ IsFrame /\ ~DistinctLabels(Frame.keys))
    => LET w == ret.st.writes
       IN  /\ ret.exc \in {"none", "UsageError", "WriteError"}
           /\ ret.exc = "UsageError" => w = <<>>
           /\ ret.exc = "WriteError" => Len(w) = 2 /\ ~w[1].ok /\ ~w[2].ok
           /\ ret.exc # "UsageError" => ret.st.warn = <<NonUniqueMsg>>
           /\ ret.exc = "none" =>
                 /\ w # <<>> /\ w[Len(w)].ok /\ w[Len(w)].path = tmpfiles
                 /\ ret.out = "..read.feather(" \o PathLit(tmpfiles) \o ", index=NULL)"

C12_Witness ==
    /\ pc = "returned" /\ IsFrame
    /\ Frame.keys = <<StrV(<<"x">>), StrV(<<"x">>)>>
    /\ Len(ret.st.writes) = 1
    /\ ret.out = "..read.feather('/tmp/tmp1.feather', index=NULL)"
    /\ ret.st.warn = <<NonUniqueMsg>>

\* the literal of a sequence of labels: c(...) when they are of one kind
LabelsText(labels) ==
    (IF \A i \in 1..Len(labels) : KindOf(labels[i]) = KindOf(labels[1])
     THEN "c(" ELSE "list(")
    \o Join([i \in 1..Len(labels) |-> ScalarText(labels[i])], ",") \o ")"

\* C13: for a frame with explicit, pairwise distinct row labels the snippet
\* carries every label, in the original order, as an inline literal next to
\* the file-read call, and no index warning is recorded.
C13_DistinctLabelsInline ==
    (Called /\ IsFrame /\ Frame.idx = "Index" /\ DistinctLabels(Frame.keys)
        /\ ret.exc = "none")
    => /\ ret.out = "..read.feather(" \o PathLit(tmpfiles) \o ", index="
                       \o LabelsText(Frame.keys) \o ")"
       /\ NonUniqueMsg \notin Range(ret.st.warn)

C13_Witness ==
    /\ pc = "returned" /\ IsFrame /\ Frame.idx = "Index"
    /\ Frame.keys = <<StrV(<<"y">>), StrV(<<"x">>)>>
    /\ ret.out = "..read.feather('/tmp/tmp1.feather', index=c('y','x'))"
    /\ ret.st.warn = <<>>

\* C14: a mapping is NULL only where that same instance is being encoded
\* further up the call stack; an instance that occurs more than once
\* without forming a cycle (the value of two sibling keys) is encoded in
\* full at every occurrence.
C14_SharedMappingInFull ==
    (Called /\ IsRefTo(heap, arg, {"dict"}) /\ OnlyDicts(heap, arg[2]))
    => ret.exc = "none" /\ ret.out = PathText(heap, arg, {})

\* the names of the entries of the mapping that is the argument
EntryNames == [i \in 1..Len(Frame.keys) |-> make_name(PyStr(Frame.keys[i]))]

\* C16: in the encoding of one mapping the names make_name(str(key)) of its
\* entries are pairwise distinct: no two entries of list(...) have one name.
C16_MangledNamesDistinct ==
    (Called /\ IsFlatContainer /\ Frame.cls = "dict")
    => /\ ret.out = "list(" \o BodyText \o ")"
       /\ \A i, j \in 1..Len(EntryNames) : EntryNames[i] = EntryNames[j] => i = j

\* the text of an array element when NaN is the sentinel NaN
SentinelText(x) == IF x[2].c = "nan" THEN "NaN" ELSE Cat(FloatChars(x[2]))

\* C17: every floating-point NaN, a Python float, a numpy float16, float32
\* or float64 scalar, an element of a 1-D numpy array or of an array of
\* rank >= 2, is encoded as NaN, never as another token or an error.
C17_NaNIsSentinel ==
    /\ (Called /\ arg[1] \in {"float", "float16", "float32", "float64"}
          /\ arg[2].c = "nan")
       => ret.exc = "none" /\ ret.out = "NaN"
    /\ (Called /\ IsRefTo(heap, arg, {"ndarray"}) /\ Len(Frame.shape) = 1)
       => /\ ret.exc = "none"
          /\ ret.out = "array(c(" \o Join([i \in 1..Len(Items) |->
                                            SentinelText(Items[i])], ",") \o "))"
    /\ (Called /\ IsRefTo(heap, arg, {"ndarray"}) /\ Len(Frame.shape) = 2)
       => /\ ret.exc = "none"
          /\ ret.out = "array(c("
                \o Join([i \in 1..Len(Items) |->
                           SentinelText(flatten(ndarray_swapped(Frame))[i])], ",")
                \o "), dim=(rev(c" \o Cat(TupleChars(Reverse(Frame.shape))) \o ")))"

\* a letter followed only by letters, digits and underscores
IsIdentifier(name) ==
    /\ name # <<>> /\ name[1] \in Letters
    /\ \A i \in 1..Len(name) : IsWordChar(name[i])

\* C15: make_name returns a string for every string, applying it to its own
\* result changes nothing, and a letter followed only by letters, digits and
\* underscores is returned unchanged.
C15_TotalIdempotent ==
    /\ pc \in {"named", "renamed"} =>
          /\ DOMAIN ret = 1..Len(ret)
          /\ \A i \in 1..Len(ret) : ret[i] \in NameChars \cup Digits \cup {"X"}
    /\ (pc = "named" /\ IsIdentifier(arg)) => ret = arg
    /\ pc = "renamed" => ret = arg

C15_Witness ==
    pc = "renamed" /\ arg = <<"X", "_", "1", "_">> /\ ret = arg

\* the array that went to R
Source == AsArray(heap[1])

\* C18: for an array of shape (r, c) the statement evaluated by R makes an
\* array of dim (r, c) whose element [i, j] is the source's element [i, j];
\* for rank 3, encoding to R and encoding R's array back restores the shape
\* and every element at its index.
C18_AxisOrderPreserved ==
    /\ (pc = "r_array" /\ Len(Source.shape) = 2) =>
          /\ ret.exc = "none"
          /\ ret.value.dim = Source.shape
          /\ \A i \in 0..(Source.shape[1] - 1), j \in 0..(Source.shape[2] - 1) :
                R_at(ret.value, <<i + 1, j + 1>>) = np_at(Source, <<i, j>>)[2]
          /\ Source = [shape |-> <<2, 2>>, data |-> <<NpIntV(1), NpIntV(2), NpIntV(3), NpIntV(4)>>]
                => ret.out = "array(c(1,3,2,4), dim=(rev(c(2, 2))))"
    /\ pc = "py_back" =>
          /\ Len(Source.shape) >= 3
          /\ ret.value.shape = Source.shape
          /\ \A o \in 0..(Prod(Source.shape) - 1) :
                np_at(ret.value, Unravel(o, Source.shape))
                  = np_at(Source, Unravel(o, Source.shape))

C18_Witness ==
    /\ pc = "py_back"
    /\ Source.shape = <<2, 3, 2>>
    /\ ret.value = Source
    /\ ret.out = "numpy.array([1,3,5,2,4,6,7,9,11,8,10,12]).reshape([2,2,3]).swapaxes(1,2)"

\* C19: for every R character scalar s, with double quotes or backslashes
\* at any position, the text of ..py.repr.character.1 is Python source that
\* evaluates to exactly s.
C19_StringSurvives ==
    pc = "evaluated" => ret = [exc |-> "none", value |-> arg]

\* the last characters of a temporary file's name
Suffix(name) == Cat(SubSeq(name, Len(name) - 7, Len(name)))
\* the snippet of a frame or matrix whose file is the n-th one
TableText(o, n) ==
    IF o.cls = "matrix" THEN "data.matrix(..read.feather(" \o PathLit(n) \o "))"
    ELSE "..read.feather(" \o PathLit(n) \o ", index="
           \o (IF DistinctLabels(o.keys) THEN LabelsText(o.keys) ELSE "NULL") \o ")"

\* C20: every encode of a matrix or frame creates exactly one temporary
\* file, named *.feather, that no earlier encode made: over any sequence of
\* encodes no two emit the same path, none writes to a path made earlier,
\* and no file is deleted.  (The files are those numbered 1..tmpfiles; an
\* encode that stops at the missing feather module makes none.)
C20_FreshFilePerEncode ==
    [][pc = "encode" =>
         LET w == ret'.st.writes
             made == (tmpfiles + 1)..tmpfiles'
             table == IsRefTo(heap, arg, {"DataFrame", "matrix"})
             pair == /\ IsRefTo(heap, arg, {"list"}) /\ Items = <<Ref(1), Ref(1)>>
                     /\ heap[1].cls \in {"DataFrame", "matrix"}
         IN  /\ tmpfiles' >= tmpfiles
             /\ \A i \in 1..Len(w) : w[i].path \in made
             /\ \A n \in made : Suffix(TmpName(n)) = ".feather"
             /\ \A n \in made, m \in 1..tmpfiles : TmpName(n) # TmpName(m)
             /\ table =>
                   /\ ret'.exc = "UsageError" => made = {} /\ w = <<>>
                   /\ ret'.exc # "UsageError" =>
                         /\ made = {tmpfiles + 1}
                         /\ w # <<>> /\ \A i \in 1..Len(w) : w[i].path = tmpfiles + 1
                   /\ ret'.exc = "none" => ret'.out = TableText(heap[arg[2]], tmpfiles + 1)
             /\ (pair /\ ret'.exc = "none") =>
                   /\ made = {tmpfiles + 1, tmpfiles + 2}
                   /\ \E i, j \in 1..Len(w) : i < j /\ w[i].path = tmpfiles + 1
                                                   /\ w[j].path = tmpfiles + 2
                   /\ ret'.out = "c(" \o TableText(heap[1], tmpfiles + 1) \o ","
                                      \o TableText(heap[1], tmpfiles + 2) \o ")"
      ]_vars

\* the second encode of a frame has made the second file
C20_Witness ==
    /\ pc = "encoded" /\ IsFrame /\ tmpfiles = 2
    /\ \A i \in 1..Len(ret.st.writes) : ret.st.writes[i].path = 2
    /\ ret.out = "..read.feather('/tmp/tmp2.feather', index=c(0))"

IsTable == IsRefTo(heap, arg, {"DataFrame", "matrix"})

\* C21: when feather cannot be imported the encode of a matrix or frame
\* raises UsageError with a message naming the module and where to get it;
\* no temporary file is made, nothing is written, no warning is recorded,
\* the import is not tried again, and no text (NULL or other) is returned.
C21_MissingFeatherIsFatal ==
    /\ (Called /\ IsTable /\ ret.st.imports # <<>> /\ ~ret.st.imports[1]) =>
          /\ pc = "raised" /\ ret.exc = "UsageError"
          /\ ret.st.msg = "The feather-format module is required to pass "
                \o (IF Frame.cls = "matrix" THEN "numpy matrix as R matrix"
                    ELSE "pandas DataFrame as R data.frame")
                \o "See https://github.com/wesm/feather/tree/master/python for details."
          /\ ret.out = ""
          /\ tmpfiles = 0 /\ ret.st.nfiles = 0 /\ ret.st.writes = <<>>
          /\ R_repr_warnings = <<>> /\ ret.st.warn = <<>>
          /\ ret.st.imports = <<FALSE>>
    /\ (Called /\ IsTable) => Len(ret.st.imports) = 1
    /\ (Called /\ ret.exc = "UsageError") => FALSE \in Range(ret.st.imports)

C21_Witness ==
    /\ pc = "raised" /\ IsFrame /\ Frame.keys = <<StrV(<<"x">>), StrV(<<"x">>)>>
    /\ ret.exc = "UsageError" /\ ret.st.imports = <<FALSE>>
    /\ tmpfiles = 0 /\ ret.st.warn = <<>>

\* the container form of the text of a sequence: c or list
FormOf(items) ==
    LET r == TopCall([i \in {1} |-> ListObj(items)], Ref(1), <<>>, 0, GoodEnv)
        body == Join([i \in 1..Len(items) |-> ScalarText(items[i])], ",")
    IN  IF r.out = "c(" \o body \o ")" THEN "c"
        ELSE IF r.out = "list(" \o body \o ")" THEN "list" ELSE "other"

\* C25: whether a sequence of more than one scalar becomes c(...) or
\* list(...) does not depend on the order of its elements: every
\* permutation of them gets the same container form.
C25_FormIgnoresOrder ==
    (Called /\ IsScalarSequence /\ Len(Items) > 1 /\ ret.exc = "none")
    => /\ FormOf(Items) \in {"c", "list"}
       /\ \A p \in Permutations(1..Len(Items)) :
             FormOf([i \in 1..Len(Items) |-> Items[p[i]]]) = FormOf(Items)

\* the name a variable is to get in R: a leading underscore becomes a dot
Target(name) == IF Head(name) = "_" THEN "." \o Cat(Tail(name)) ELSE Cat(name)
RenameWarning(name) ==
    "Variable " \o Cat(name) \o " is passed from SoS to kernel ir as " \o Target(name)

\* C22: get_vars takes the names in the order given; for each it encodes
\* the variable, surfaces the warnings of the encode, and then runs exactly
\* one statement '<target> <- <encoding>' in R before it turns to the next
\* name; the target is the name with a leading underscore replaced by a dot,
\* announced by a warning; an encode that raises ends the call, and no later
\* name is assigned.
C22_OneAssignmentPerNameInOrder ==
    [][/\ (pc = "loop" /\ todo # <<>>) =>
            /\ pc' = "encode" /\ todo' = todo /\ cells' = cells
            /\ arg' = sos_dict[Head(todo)]
            /\ warned' = IF Head(todo)[1] = "_"
                          THEN Append(warned, RenameWarning(Head(todo))) ELSE warned
       /\ pc = "encode" =>
            /\ pc' \in {"encoded", "raised"} /\ todo' = todo /\ cells' = cells
            /\ warned' = warned
       /\ pc = "encoded" =>
            /\ pc' = "surfaced" /\ todo' = todo /\ cells' = cells
            /\ warned' = IF ret.st.warn = <<>> THEN warned
                          ELSE Append(warned, Join(ret.st.warn, "\n"))
       /\ pc = "surfaced" =>
            /\ pc' = "loop" /\ todo' = Tail(todo) /\ warned' = warned
            /\ cells' = Append(cells, Target(Head(todo)) \o " <- " \o ret.out)
       /\ (pc = "loop" /\ todo = <<>>) => pc' = "returned" /\ cells' = cells
       /\ pc = "raised" => pc' = "loop" /\ calls' = calls + 1 /\ cells' = <<>>
       /\ cells' # cells => (pc = "surfaced" \/ (pc' = "loop" /\ calls' = calls + 1))
      ]_vars

\* both variables have been assigned, in the order given
C22_Witness ==
    /\ pc = "returned"
    /\ heap[1] = ListObj(<<ObjV("o1")>>) /\ heap[2] = ListObj(<<IntV(1)>>)
    /\ cells = <<".y <- c(1)", "x <- c(NULL)">>
    /\ warned = <<"Variable _y is passed from SoS to kernel ir as .y",
                  "Unsupported datatype <o1>. Variable is set to NULL">>

\* the names of seq that start with the letters s, o, s
SosNames(seq) ==
    SelectSeq(seq, LAMBDA x : Len(x) >= 3 /\ x[1] = "s" /\ x[2] = "o" /\ x[3] = "s")

\* the announcement for each dotted name of items, in order
DottedAnnouncements(items) ==
    LET dotted == SelectSeq(items, LAMBDA x : \E i \in 1..Len(x) : x[i] = ".")
    IN  [i \in 1..Len(dotted) |->
           "Variable " \o Cat(dotted[i]) \o " is put to SoS as "
             \o Cat([j \in 1..Len(dotted[i]) |->
                       IF dotted[i][j] = "." THEN "_" ELSE dotted[i][j]])]

\* the one statement that names every item
ItemsStatement(items) ==
    "cat(..py.repr(list("
      \o Join([i \in 1..Len(items) |-> Cat(items[i]) \o "=" \o Cat(items[i])], ",")
      \o ")))"

\* the variables R listed, whether it answered with one name or a list
Listed == IF responses[1][1] = "str" THEN <<responses[1][2]>> ELSE responses[1][2]

\* C23: put_vars first asks R for its variable list and adds every listed
\* variable whose name starts with 'sos' to the requested items; it returns
\* {} with no second evaluation exactly when that item list is empty, and
\* otherwise issues exactly one ..py.repr evaluation naming every item; each
\* item with a '.' in its name is announced once as stored with '_'
C23_PutVarsAsksThenEncodesOnce ==
    pc \in {"put_repr", "put_expr", "returned"} =>
        /\ cells[1] = "cat(..py.repr(ls()))"
        /\ todo = arg.items \o SosNames(Listed)
        /\ SubSeq(warned, 1, Len(DottedAnnouncements(todo))) = DottedAnnouncements(todo)
        /\ Len(warned) <= Len(DottedAnnouncements(todo)) + 1
        /\ (pc = "put_repr" => todo # <<>> /\ Len(cells) = 1)
        /\ (pc = "put_expr" => Len(cells) = 2)
        /\ (pc = "returned" =>
              /\ (ret.kind = "dict") = (todo = <<>>)
              /\ (todo = <<>>) = (Len(cells) = 1)
              /\ todo = <<>> => ret.text = "{}" /\ warned = <<>>
              /\ todo # <<>> => Len(cells) = 2 /\ cells[2] = ItemsStatement(todo))

\* a call for a.b where R lists so, sos.y and sosx has returned: sos.y and
\* sosx joined the items, one statement named all three, two names announced
C23_Witness ==
    /\ pc = "returned"
    /\ arg.items = <<<<"a", ".", "b">>>>
    /\ Listed = <<<<"s", "o">>, <<"s", "o", "s", ".", "y">>, <<"s", "o", "s", "x">>>>
    /\ todo = <<<<"a", ".", "b">>, <<"s", "o", "s", ".", "y">>, <<"s", "o", "s", "x">>>>
    /\ cells = <<"cat(..py.repr(ls()))", "cat(..py.repr(list(a.b=a.b,sos.y=sos.y,sosx=sosx)))">>
    /\ SubSeq(warned, 1, 2) = <<"Variable a.b is put to SoS as a_b",
                                "Variable sos.y is put to SoS as sos_y">>

\* the source a Python kernel is handed for the text expr
WrappedSource(expr) ==
    LET has(w) == \E i \in 1..(Len(expr) - Len(w) + 1) :
                       SubSeq(expr, i, i + Len(w) - 1) = w
    IN  (IF has(<<"r", "e", "a", "d", "_", "d", "a", "t", "a", "f", "r", "a", "m", "e">>)
         THEN "from feather import read_dataframe\n\n" ELSE "\n")
          \o (IF has(<<"n", "u", "m", "p", "y">>) THEN "import numpy\n" ELSE "\n")
          \o (IF has(<<"p", "a", "n", "d", "a", "s">>) THEN "import pandas\n" ELSE "\n")
          \o "globals().update(" \o Cat(expr) \o ")"

\* C24: for a destination other than Python2 and Python3 a failure while
\* evaluating R's text does not leave put_vars: one more warning gives the
\* text and the error and None is returned; for Python2 and Python3 the text
\* is not evaluated and comes back as source inside globals().update(...),
\* the feather, numpy and pandas import lines present only when it mentions them
C24_EvalFailureWarnsPythonGetsSource ==
    pc = "returned" /\ Len(responses) = 2 =>
        LET expr == responses[2]
            own == DottedAnnouncements(todo)
        IN  IF arg.to_kernel \in {"Python2", "Python3"}
            THEN /\ ret.kind = "source"
                 /\ ret.exc = "none"
                 /\ ret.text = WrappedSource(expr)
                 /\ warned = own
            ELSE /\ ret.kind \in {"value", "None"}
                 /\ (ret.kind = "None") = (ret.exc # "none")
                 /\ ret.exc = "none" => warned = own
                 /\ ret.exc # "none" =>
                      warned = Append(own, "Failed to evaluate " \o Cat(StrReprChars(expr))
                                             \o ": " \o ret.err)

\* a.b went to SoS where feather is missing: the frame's text was not
\* evaluated, the warning gives the text and the ImportError, None came back
C24_Witness ==
    /\ pc = "returned"
    /\ arg = [items |-> <<<<"a", ".", "b">>>>, to_kernel |-> "SoS"]
    /\ Len(responses) = 2
    /\ responses[2] = ExprFrame
    /\ ret.kind = "None"
    /\ ret.exc = "ImportError"
    /\ warned = <<"Variable a.b is put to SoS as a_b",
                  "Failed to evaluate \"dict([ ('a',read_dataframe(r'/tmp/arrow1')) ])\": No module named 'feather'">>

====
